---- MODULE Spec2Model ----
(***************************************************************************)
(* Model of moonboy/data/loader.py: the range-partitioned cache of market  *)
(* bars (scan_cache_ranges, find_missing_ranges, get_split_ranges,         *)
(* download_data, load_data).                                              *)
(*                                                                         *)
(* A datetime is an integer that keeps the order of (year, month, day,     *)
(* hour); a date (what strftime('%Y-%m-%d') keeps) is the datetime without *)
(* its hour.  A bar is [ts, v]: its timestamp and a value standing for the *)
(* OHLCV columns.  A frame is a sequence of bars.                          *)
(***************************************************************************)
EXTENDS Integers, Sequences, FiniteSets, TLC

VARIABLES
    files,      \* the cache directory: file name -> frame stored in the file
    last,       \* the load_data call that has just returned or raised, if any
    prev,       \* arguments and outcome of the load_data call before it
    fm,         \* find_missing_ranges applied to drawn inputs
    sp,         \* get_split_ranges applied to drawn inputs
    held,       \* what a vendor whose data does not change holds
    sc,         \* scan_cache_ranges applied to a drawn directory
    rc,         \* two processes in load_data for the same missing sub-range
    solo        \* the outcome the last call would have had on its own series' files

vars == <<files, last, prev, fm, sp, held, sc, rc, solo>>

(***************************************************************************)
(* datetime                                                                *)
(***************************************************************************)
DT(y, m, d, h) == ((y * 12 + (m - 1)) * 31 + (d - 1)) * 24 + h

Year(t) == t \div (12 * 31 * 24)

Month(t) == ((t \div (31 * 24)) % 12) + 1

Min(a, b) == IF a <= b THEN a ELSE b

Max(a, b) == IF a >= b THEN a ELSE b

Range(s, e) == [start |-> s, end |-> e]

\* the instants of the half-open range [s, e) among a set of sample instants
InRange(t, r) == r.start <= t /\ t < r.end

(***************************************************************************)
(* get_split_ranges                                                        *)
(***************************************************************************)
KnownIntervals == {"1d", "1h", "1wk", "1mo", "5d", "30m", "15m", "5m", "1m"}

INTERVAL_SPLIT ==
    [i \in KnownIntervals |->
        CASE i \in {"1d", "1wk", "5d"} -> "year"
          [] i \in {"1h", "30m", "15m", "5m", "1m"} -> "month"
          [] i = "1mo" -> "decade"]

\* INTERVAL_SPLIT.get(interval, 'year')
SplitOf(interval) ==
    IF interval \in DOMAIN INTERVAL_SPLIT THEN INTERVAL_SPLIT[interval] ELSE "year"

\* mutation of next_split: the boundary at or before the cursor is taken, not the
\* one after it
next_split_notafter(cur, end, split) ==
    CASE split = "year" -> DT(Year(cur), 1, 1, 0)
      [] split = "month" -> DT(Year(cur), Month(cur), 1, 0)
      [] split = "decade" -> DT((Year(cur) \div 10) * 10, 1, 1, 0)
      [] OTHER -> end

\* mutation of next_split: a year split ends one year after the cursor, not at the
\* next first of January
next_split_yearlater(cur, end, split) ==
    CASE split = "year" -> cur + 12 * 31 * 24
      [] split = "month" ->
            IF Month(cur) = 12 THEN DT(Year(cur) + 1, 1, 1, 0)
            ELSE DT(Year(cur), Month(cur) + 1, 1, 0)
      [] split = "decade" -> DT((Year(cur) \div 10 + 1) * 10, 1, 1, 0)
      [] OTHER -> end

next_split(cur, end, split) ==
    CASE split = "year" -> DT(Year(cur) + 1, 1, 1, 0)
      [] split = "month" ->
            IF Month(cur) = 12 THEN DT(Year(cur) + 1, 1, 1, 0)
            ELSE DT(Year(cur), Month(cur) + 1, 1, 0)
      [] split = "decade" -> DT((Year(cur) \div 10 + 1) * 10, 1, 1, 0)
      [] OTHER -> end

\* mutation of SplitEnd: the last sub-range is not clipped to the gap's end
SplitEnd_unclipped(nxt, end) == nxt

\* split_end = min(next_split, end)
SplitEnd(nxt, end) == Min(nxt, end)

\* one pass of the while loop: the end of the sub-range that starts at cur
split_step(cur, end, split) == SplitEnd(next_split(cur, end, split), end)

RECURSIVE split_loop(_, _, _, _)
split_loop(cur, end, split, ranges) ==
    IF cur < end
    THEN LET split_end == split_step(cur, end, split)
         IN  split_loop(split_end, end, split, Append(ranges, Range(cur, split_end)))
    ELSE ranges

get_split_ranges(start, end, interval) ==
    split_loop(start, end, SplitOf(interval), <<>>)

(***************************************************************************)
(* find_missing_ranges                                                     *)
(***************************************************************************)
RECURSIVE InsertByStart(_, _)
InsertByStart(r, sorted) ==
    IF sorted = <<>> THEN <<r>>
    ELSE IF Head(sorted).start <= r.start
         THEN <<Head(sorted)>> \o InsertByStart(r, Tail(sorted))
         ELSE <<r>> \o sorted

RECURSIVE StableSort(_)
StableSort(rs) ==
    IF rs = <<>> THEN <<>>
    ELSE InsertByStart(rs[Len(rs)], StableSort(SubSeq(rs, 1, Len(rs) - 1)))

\* mutation of sorted_by_start: the cached ranges are taken in the order given
sorted_by_start_unsorted(rs) == rs

\* sorted([Range(s, e) for s, e, _ in cached_ranges], key=lambda r: r.start)
sorted_by_start(rs) == StableSort(rs)

\* the test that keeps a cached range apart from the running merged range
StartsNewRun(r, lastMerged) == r.start > lastMerged.end

RECURSIVE merge_ranges(_, _)
merge_ranges(cached, merged) ==
    IF cached = <<>> THEN merged
    ELSE LET r == Head(cached)
             n == Len(merged)
         IN  IF n = 0 \/ StartsNewRun(r, merged[n])
             THEN merge_ranges(Tail(cached), Append(merged, r))
             ELSE merge_ranges(Tail(cached),
                      [merged EXCEPT ![n] = Range(merged[n].start, Max(merged[n].end, r.end))])

\* mutation of GapBefore: the gap runs to the end of the request, not to the start
\* of the cached range
GapBefore_toEnd(cur, rstart, requested_end) == Range(cur, requested_end)

\* Range(cur, min(r.start, requested_end))
GapBefore(cur, rstart, requested_end) == Range(cur, Min(rstart, requested_end))

\* mutation of Advance: the cursor jumps to the cached range's end, even backwards
Advance_nomax(cur, rend) == rend

\* cur = max(cur, r.end)
Advance(cur, rend) == Max(cur, rend)

\* mutation of TrailingGap: the gap after the last cached range is forgotten
TrailingGap_dropped(cur, requested_end, missing) == missing

\* mutation of TrailingGap: the range after the last cached range is appended
\* without the test
TrailingGap_unguarded(cur, requested_end, missing) ==
    Append(missing, Range(cur, requested_end))

\* if cur < requested_end: missing.append(Range(cur, requested_end))
TrailingGap(cur, requested_end, missing) ==
    IF cur < requested_end THEN Append(missing, Range(cur, requested_end)) ELSE missing

RECURSIVE walk_missing(_, _, _, _)
walk_missing(merged, cur, requested_end, missing) ==
    IF merged = <<>> THEN [cur |-> cur, missing |-> missing]
    ELSE LET r  == Head(merged)
             m1 == IF cur < r.start
                   THEN Append(missing, GapBefore(cur, r.start, requested_end))
                   ELSE missing
             c1 == Advance(cur, r.end)
         IN  IF c1 >= requested_end
             THEN [cur |-> c1, missing |-> m1]
             ELSE walk_missing(Tail(merged), c1, requested_end, m1)

find_missing_ranges(requested_start, requested_end, cached_ranges) ==
    LET cached == sorted_by_start([i \in 1..Len(cached_ranges) |->
                      Range(cached_ranges[i][1], cached_ranges[i][2])])
        merged == merge_ranges(cached, <<>>)
        w      == walk_missing(merged, requested_start, requested_end, <<>>)
    IN  TrailingGap(w.cur, requested_end, w.missing)

(***************************************************************************)
(* get_fname, scan_cache_ranges: ranges to file names and back             *)
(***************************************************************************)
\* strftime('%Y-%m-%d') of a datetime (or of its .date()): the hour is dropped
DateOf(t) == t \div 24

\* parse_date of a 'YYYY-MM-DD' string: midnight of that date
parse_date(d) == d * 24

\* the path cache_dir/ticker/{interval}-{start}-{end}.csv, by its parts: the
\* directory, what stands before the two dates, the two date strings, what stands
\* after them
get_fname(ticker, interval, start_dt, end_dt) ==
    [ticker |-> ticker, interval |-> interval,
     s |-> DateOf(start_dt), e |-> DateOf(end_dt), ext |-> ".csv"]

\* mutation of Matches: the name only has to begin with the interval code, so a
\* 1mo file is taken for a 1m file
Matches_prefix(fname, interval) ==
    /\ fname.ext = ".csv"
    /\ (fname.interval = interval \/ (interval = "1m" /\ fname.interval = "1mo"))

\* pattern.fullmatch(fname): the name is the interval code, '-', a date of digits,
\* '-', a date of digits and '.csv', with nothing before or after
Matches(fname, interval) == fname.interval = interval /\ fname.ext = ".csv"

\* a string of digits of the pattern's shape that names no calendar date, such as
\* 2020-13-45
BadDate == -1

\* mutation of Parses: whatever the pattern matched is taken for a date
Parses_unchecked(d) == TRUE

\* parse_date(d) returns: d names a calendar date
Parses(d) == d # BadDate

RECURSIVE scan_loop(_, _, _)
scan_loop(listing, interval, found) ==
    IF listing = <<>> THEN found
    ELSE LET fname == Head(listing)
         IN  IF Matches(fname, interval)
             THEN IF Parses(fname.s) /\ Parses(fname.e)
                  THEN scan_loop(Tail(listing), interval,
                           Append(found,
                                  <<parse_date(fname.s), parse_date(fname.e), fname>>))
                  ELSE scan_loop(Tail(listing), interval, found)
             ELSE scan_loop(Tail(listing), interval, found)

\* if not os.path.exists(ticker_dir): return []
scan_dir(ticker, interval, exists, listing) ==
    IF ~exists THEN <<>> ELSE scan_loop(listing, interval, <<>>)

\* listing is os.listdir(ticker_dir), in the order the file system gives
scan_cache_ranges(ticker, interval, listing) == scan_loop(listing, interval, <<>>)

RECURSIVE Perms(_)
Perms(S) ==
    IF S = {} THEN {<<>>}
    ELSE UNION {{<<x>> \o p : p \in Perms(S \ {x})} : x \in S}

\* os.listdir(os.path.join(cache_dir, ticker)): any order of the entries
Listings(fs, ticker) == Perms({f \in DOMAIN fs : f.ticker = ticker})

(***************************************************************************)
(* the vendor: an external collaborator                                    *)
(***************************************************************************)
RECURSIVE AscBars(_, _)
AscBars(ans, ts) ==
    IF ts = {} THEN <<>>
    ELSE LET t == CHOOSE x \in ts : \A y \in ts : x <= y
         IN  <<[ts |-> t, v |-> ans[t]]>> \o AscBars(ans, ts \ {t})

\* vendor.get_historical_data(ticker, interval, start, end): the bars the vendor
\* holds (ans[t] # 0) with start <= t < end, in ascending order
get_historical_data(ans, start, end) ==
    AscBars(ans, {t \in DOMAIN ans : ans[t] # 0 /\ start <= t /\ t < end})

(***************************************************************************)
(* download_data, save_data and the fetch loop of load_data                *)
(***************************************************************************)
\* data.to_csv(filename): creates or overwrites the file
save_data(st, data, fname) ==
    [st EXCEPT !.files = [f \in DOMAIN st.files \cup {fname} |->
                              IF f = fname THEN data ELSE st.files[f]],
               !.writes = Append(st.writes, fname)]

\* download_data(..., cache_data=True): if not os.path.exists(fname): save_data
CacheDownload(st, data, fname) ==
    IF fname \notin DOMAIN st.files THEN save_data(st, data, fname) ELSE st

\* mutation of VendorRaised: the exception is caught and taken for an empty frame
VendorRaised_swallowed(st, start_date, end_date) ==
    [st EXCEPT !.calls = Append(st.calls,
                   [start |-> start_date, end |-> end_date, outcome |-> "raise",
                    at |-> Len(st.writes)]),
               !.data = <<>>]

\* vendor.get_historical_data raises: nothing catches the exception, it leaves
\* download_data and load_data
VendorRaised(st, start_date, end_date) ==
    [st EXCEPT !.calls = Append(st.calls,
                   [start |-> start_date, end |-> end_date, outcome |-> "raise",
                    at |-> Len(st.writes)]),
               !.raised = TRUE]

\* st after download_data(vendor, ticker, interval, start, end, cache_data=True);
\* st.data is the frame returned, st.raised says the vendor call raised; a vendor
\* call is recorded with its range, its outcome and the number of files the
\* load_data call had written when it was made (at)
download_data(st, ticker, interval, start_date, end_date, ans, failAt) ==
    IF Len(st.calls) + 1 = failAt
    THEN VendorRaised(st, start_date, end_date)
    ELSE LET data == get_historical_data(ans, start_date, end_date)
             st1  == [st EXCEPT !.calls = Append(st.calls,
                         [start |-> start_date, end |-> end_date,
                          outcome |-> IF data = <<>> THEN "empty" ELSE "bars",
                          at |-> Len(st.writes)]),
                                !.data = data]
         IN  CacheDownload(st1, data,
                 get_fname(ticker, interval, start_date, end_date))

\* mutation of KeepNew: the frame is saved only if the file is not there yet
KeepNew_ifabsent(st, rng, fname) ==
    IF st.data # <<>> /\ fname \notin DOMAIN st.files
    THEN [save_data(st, st.data, fname) EXCEPT
              !.new_files = Append(st.new_files, <<rng.start, rng.end, fname>>)]
    ELSE st

\* if not df.empty: save_data(df, fname); new_files.append(...)
KeepNew(st, rng, fname) ==
    IF st.data # <<>>
    THEN [save_data(st, st.data, fname) EXCEPT
              !.new_files = Append(st.new_files, <<rng.start, rng.end, fname>>)]
    ELSE st

\* mutation of NeedsFetch: the sub-range is fetched whether or not its file exists
NeedsFetch_always(st, fname) == TRUE

\* if not os.path.exists(fname): the sub-range is fetched
NeedsFetch(st, fname) == fname \notin DOMAIN st.files

RECURSIVE fetch_loop(_, _, _, _, _, _)
fetch_loop(subs, st, ticker, interval, ans, failAt) ==
    IF subs = <<>> \/ st.raised THEN st
    ELSE LET rng   == Head(subs)
             fname == get_fname(ticker, interval, rng.start, rng.end)
         IN  IF NeedsFetch(st, fname)
             THEN LET st1 == download_data(st, ticker, interval, rng.start, rng.end,
                                           ans, failAt)
                  IN  IF st1.raised THEN st1
                      ELSE fetch_loop(Tail(subs), KeepNew(st1, rng, fname),
                                      ticker, interval, ans, failAt)
             ELSE fetch_loop(Tail(subs), st, ticker, interval, ans, failAt)

\* mutation of all_split_ranges: the gaps are taken latest first
RECURSIVE all_split_ranges_reversed(_, _)
all_split_ranges_reversed(missing, interval) ==
    IF missing = <<>> THEN <<>>
    ELSE all_split_ranges_reversed(Tail(missing), interval)
            \o get_split_ranges(Head(missing).start, Head(missing).end, interval)

\* for rng in missing: for split_rng in get_split_ranges(rng.start, rng.end, interval)
RECURSIVE all_split_ranges(_, _)
all_split_ranges(missing, interval) ==
    IF missing = <<>> THEN <<>>
    ELSE get_split_ranges(Head(missing).start, Head(missing).end, interval)
            \o all_split_ranges(Tail(missing), interval)

(***************************************************************************)
(* merge and trim (load_data, steps 4 and 5)                               *)
(***************************************************************************)
\* not (f[1] <= parse_date(start_date) or f[0] >= parse_date(end_date))
Relevant(f, start_date, end_date) == ~(f[2] <= start_date \/ f[1] >= end_date)

RECURSIVE relevant_files(_, _, _)
relevant_files(all_files, start_date, end_date) ==
    IF all_files = <<>> THEN <<>>
    ELSE (IF Relevant(Head(all_files), start_date, end_date)
          THEN <<Head(all_files)>> ELSE <<>>)
         \o relevant_files(Tail(all_files), start_date, end_date)

\* mutation of HasFrames: the frames are concatenated without the test
HasFrames_unguarded(dfs) == TRUE

\* if dfs:
HasFrames(dfs) == dfs # <<>>

\* pd.concat(dfs) raises ValueError (no objects to concatenate) on an empty list
concat_raises(dfs) == dfs = <<>>

\* pd.concat(dfs)
RECURSIVE concat(_)
concat(dfs) == IF dfs = <<>> THEN <<>> ELSE Head(dfs) \o concat(Tail(dfs))

\* mutation of KeptRow: keep='first'
KeptRow_first(df, i) == \A j \in 1..(i - 1) : df[j].ts # df[i].ts

\* ~full_df.index.duplicated(keep='last'): row i stays when no later row has its timestamp
KeptRow(df, i) == \A j \in (i + 1)..Len(df) : df[j].ts # df[i].ts

RECURSIVE select_rows(_, _, _)
select_rows(df, i, keep) ==
    IF i > Len(df) THEN <<>>
    ELSE (IF keep[i] THEN <<df[i]>> ELSE <<>>) \o select_rows(df, i + 1, keep)

drop_duplicates(df) == select_rows(df, 1, [i \in 1..Len(df) |-> KeptRow(df, i)])

\* (full_df.index >= parse_date(start_date)) & (full_df.index < parse_date(end_date))
InWindow(ts, start_date, end_date) == ts >= start_date /\ ts < end_date

trim(df, start_date, end_date) ==
    select_rows(df, 1, [i \in 1..Len(df) |-> InWindow(df[i].ts, start_date, end_date)])

RECURSIVE InsertByTs(_, _)
InsertByTs(b, sorted) ==
    IF sorted = <<>> THEN <<b>>
    ELSE IF Head(sorted).ts <= b.ts
         THEN <<Head(sorted)>> \o InsertByTs(b, Tail(sorted))
         ELSE <<b>> \o sorted

RECURSIVE SortByTs(_)
SortByTs(df) ==
    IF df = <<>> THEN <<>>
    ELSE InsertByTs(df[Len(df)], SortByTs(SubSeq(df, 1, Len(df) - 1)))

\* mutation of sort_index: the frame is left in concatenation order
sort_index_unsorted(df) == df

\* full_df.sort_index()
sort_index(df) == SortByTs(df)

(***************************************************************************)
(* load_data                                                               *)
(***************************************************************************)
\* the outcome of load_data(vendor, ticker, interval, start_date, end_date) on the
\* cache fs, listed by the file system as listing, against a vendor that holds ans
\* and raises on its failAt-th call (never when failAt = 0)
load_data(fs, ticker, interval, start_date, end_date, listing, ans, failAt) ==
    LET cached   == scan_cache_ranges(ticker, interval, listing)
        missing  == find_missing_ranges(start_date, end_date, cached)
        st0      == [files |-> fs, new_files |-> <<>>, calls |-> <<>>,
                     writes |-> <<>>, data |-> <<>>, raised |-> FALSE]
        st       == fetch_loop(all_split_ranges(missing, interval), st0,
                               ticker, interval, ans, failAt)
        all_files == cached \o st.new_files
        relevant == relevant_files(all_files, start_date, end_date)
        dfs      == [i \in 1..Len(relevant) |-> st.files[relevant[i][3]]]
        merged   == drop_duplicates(concat(dfs))
        full_df  == sort_index(trim(merged, start_date, end_date))
        raised   == st.raised \/ (HasFrames(dfs) /\ concat_raises(dfs))
    IN  [files |-> st.files, cached |-> cached, missing |-> missing,
         calls |-> st.calls, writes |-> st.writes, raised |-> raised,
         parts  |-> IF raised THEN <<>> ELSE dfs,
         merged |-> IF raised THEN <<>> ELSE merged,
         result |-> IF raised \/ ~HasFrames(dfs) THEN <<>> ELSE full_df]

(***************************************************************************)
(* The cache under a sequence of load_data calls                           *)
(***************************************************************************)
MaxVer == 2        \* distinct bar values the vendor can hold for one timestamp

Tickers == {"AAPL"}

Intervals == {"1d"}

\* request boundaries: midnights either side of a year boundary, and a noon
Times == {DT(2019, 12, 31, 0), DT(2020, 1, 1, 0), DT(2020, 1, 2, 0),
          DT(2020, 1, 2, 12)}

\* timestamps at which the vendor may hold a bar
BarTimes == {DT(2020, 1, 1, 0), DT(2020, 1, 2, 0)}

\* what the vendor holds during one load_data call: 0 is no bar
Answers == [BarTimes -> 0..MaxVer]

NoFiles == [f \in {} |-> <<>>]

\* a vendor that holds no bar
NoBars == [t \in BarTimes |-> 0]

NoCall ==
    [called |-> FALSE, ticker |-> "", interval |-> "", start |-> 0, end |-> 0,
     before |-> NoFiles, cached |-> <<>>, missing |-> <<>>, calls |-> <<>>,
     writes |-> <<>>, raised |-> FALSE, parts |-> <<>>, merged |-> <<>>,
     result |-> <<>>]

\* the sub-ranges a call got an empty frame for
EmptyCalls(calls) ==
    {Range(calls[i].start, calls[i].end) :
        i \in {j \in 1..Len(calls) : calls[j].outcome = "empty"}}

\* the sub-ranges a call got bars for
SavedCalls(calls) ==
    {Range(calls[i].start, calls[i].end) :
        i \in {j \in 1..Len(calls) : calls[j].outcome = "bars"}}

Summary(l) ==
    [called |-> l.called, ticker |-> l.ticker, interval |-> l.interval,
     start |-> l.start, end |-> l.end, result |-> l.result, raised |-> l.raised,
     empties |-> EmptyCalls(l.calls), saved |-> SavedCalls(l.calls),
     writes |-> {l.writes[k] : k \in 1..Len(l.writes)}]

Init ==
    /\ files = NoFiles
    /\ last = NoCall
    /\ prev = Summary(NoCall)
    /\ held = NoBars
    /\ sc = [mode |-> "idle"]
    /\ rc = [mode |-> "idle"]
    /\ solo = [mode |-> "idle"]
    /\ fm = [mode |-> "idle"]
    /\ sp = [mode |-> "idle"]

\* a load_data call; the vendor holds ans during the call and raises at its
\* failAt-th call, if the call gets that far (failAt = 0: the vendor never raises)
LoadData ==
    \E ticker \in Tickers, interval \in Intervals, start \in Times, end \in Times :
        /\ ~last.called
        /\ start < end
        /\ \E listing \in Listings(files, ticker) :
            \E failAt \in 0..Len(all_split_ranges(
                              find_missing_ranges(start, end,
                                  scan_cache_ranges(ticker, interval, listing)),
                              interval)) :
            \E ans \in Answers :
            \E r \in {load_data(files, ticker, interval, start, end, listing, ans, failAt)} :
                /\ files' = r.files
                /\ last' = [called |-> TRUE, ticker |-> ticker, interval |-> interval,
                            start |-> start, end |-> end, before |-> files,
                            cached |-> r.cached, missing |-> r.missing,
                            calls |-> r.calls, writes |-> r.writes,
                            raised |-> r.raised, parts |-> r.parts,
                            merged |-> r.merged, result |-> r.result]
        /\ UNCHANGED <<prev, fm, sp, held, sc, rc, solo>>

\* the caller takes the outcome; the next call can start
Return ==
    /\ last.called
    /\ last' = NoCall
    /\ prev' = Summary(last)
    /\ UNCHANGED <<files, fm, sp, held, sc, rc, solo>>

Next == LoadData \/ Return

Spec == Init /\ [][Next]_vars

(***************************************************************************)
(* The cache under load_data calls against a vendor whose data does not    *)
(* change; the windows lie in one year and may start or end at a noon      *)
(***************************************************************************)
SteadyTimes == {DT(2020, 1, 1, 0), DT(2020, 1, 1, 12), DT(2020, 1, 2, 0),
                DT(2020, 1, 3, 0), DT(2020, 1, 4, 0)}

\* timestamps at which the vendor may hold a bar
SteadyBarTimes == {DT(2020, 1, 1, 0), DT(2020, 1, 1, 12), DT(2020, 1, 2, 0)}

\* what the vendor holds, for good: 1 is a bar, 0 is no bar
SteadyAnswers == [SteadyBarTimes -> {0, 1}]

InitSteady ==
    /\ files = NoFiles
    /\ last = NoCall
    /\ prev = Summary(NoCall)
    /\ held \in SteadyAnswers
    /\ fm = [mode |-> "idle"]
    /\ sp = [mode |-> "idle"]
    /\ sc = [mode |-> "idle"]
    /\ rc = [mode |-> "idle"]
    /\ solo = [mode |-> "idle"]

\* a load_data call against the vendor that holds held; the vendor call may still
\* fail (failAt as in LoadData)
LoadDataSteady ==
    \E ticker \in Tickers, interval \in Intervals,
       start \in SteadyTimes, end \in SteadyTimes :
        /\ ~last.called
        /\ start < end
        /\ \E listing \in Listings(files, ticker) :
            \E failAt \in 0..Len(all_split_ranges(
                              find_missing_ranges(start, end,
                                  scan_cache_ranges(ticker, interval, listing)),
                              interval)) :
            \E r \in {load_data(files, ticker, interval, start, end, listing,
                                held, failAt)} :
                /\ files' = r.files
                /\ last' = [called |-> TRUE, ticker |-> ticker, interval |-> interval,
                            start |-> start, end |-> end, before |-> files,
                            cached |-> r.cached, missing |-> r.missing,
                            calls |-> r.calls, writes |-> r.writes,
                            raised |-> r.raised, parts |-> r.parts,
                            merged |-> r.merged, result |-> r.result]
        /\ UNCHANGED <<prev, fm, sp, held, sc, rc, solo>>

NextSteady == LoadDataSteady \/ Return

SpecSteady == InitSteady /\ [][NextSteady]_vars

(***************************************************************************)
(* Two processes in load_data with the same arguments on one cache, one    *)
(* step of the fetch loop at a time                                        *)
(***************************************************************************)
Procs == {1, 2}

\* the local state of process p in the shape the fetch operators take
StOf(p) ==
    [files |-> files, new_files |-> rc.new_files[p], calls |-> <<>>,
     writes |-> <<>>, data |-> rc.data[p], raised |-> FALSE]

\* the sub-range process p is at, and its file
RaceRng(p) == Head(rc.todo[p])

RaceFname(p) == get_fname(rc.ticker, rc.interval, RaceRng(p).start, RaceRng(p).end)

InitRace ==
    /\ files = NoFiles
    /\ last = NoCall
    /\ prev = Summary(NoCall)
    /\ held = NoBars
    /\ fm = [mode |-> "idle"]
    /\ sp = [mode |-> "idle"]
    /\ sc = [mode |-> "idle"]
    /\ solo = [mode |-> "idle"]
    /\ rc \in {[mode |-> "race", ticker |-> ticker, interval |-> interval,
                 start |-> start, end |-> end,
                 pc |-> [p \in Procs |-> "scan"],
                 cached |-> [p \in Procs |-> <<>>],
                 todo |-> [p \in Procs |-> <<>>],
                 data |-> [p \in Procs |-> <<>>],
                 new_files |-> [p \in Procs |-> <<>>],
                 passed |-> [p \in Procs |-> {}],
                 called |-> [p \in Procs |-> {}],
                 got |-> [p \in Procs |-> {}],
                 wrote |-> [p \in Procs |-> {}],
                 result |-> [p \in Procs |-> <<>>]] :
                    ticker \in Tickers, interval \in Intervals,
                    start \in Times, end \in Times}
    /\ rc.start < rc.end

\* cached = scan_cache_ranges(...); missing = find_missing_ranges(...)
RaceScan(p) ==
    /\ rc.pc[p] = "scan"
    /\ \E listing \in Listings(files, rc.ticker) :
        \E cached \in {scan_cache_ranges(rc.ticker, rc.interval, listing)} :
            rc' = [rc EXCEPT !.pc[p] = "loop",
                             !.cached[p] = cached,
                             !.todo[p] = all_split_ranges(
                                 find_missing_ranges(rc.start, rc.end, cached),
                                 rc.interval)]
    /\ UNCHANGED <<files, last, prev, fm, sp, held, sc, solo>>

\* the next sub-range: if not os.path.exists(fname)
RaceExists(p) ==
    /\ rc.pc[p] = "loop"
    /\ rc.todo[p] # <<>>
    /\ IF NeedsFetch(StOf(p), RaceFname(p))
       THEN rc' = [rc EXCEPT !.pc[p] = "vendor",
                             !.passed[p] = @ \cup {RaceRng(p)}]
       ELSE rc' = [rc EXCEPT !.todo[p] = Tail(@)]
    /\ UNCHANGED <<files, last, prev, fm, sp, held, sc, solo>>

\* download_data: data = vendor.get_historical_data(...), which may raise
RaceVendor(p) ==
    /\ rc.pc[p] = "vendor"
    /\ \/ rc' = [rc EXCEPT !.pc[p] = "raised",
                            !.called[p] = @ \cup {RaceRng(p)}]
       \/ \E ans \in Answers :
          \E data \in {get_historical_data(ans, RaceRng(p).start, RaceRng(p).end)} :
             rc' = [rc EXCEPT !.pc[p] = "dl_exists",
                              !.called[p] = @ \cup {RaceRng(p)},
                              !.got[p] = IF data # <<>> THEN @ \cup {RaceRng(p)} ELSE @,
                              !.data[p] = data]
    /\ UNCHANGED <<files, last, prev, fm, sp, held, sc, solo>>

\* download_data: if not os.path.exists(fname)
RaceDlExists(p) ==
    /\ rc.pc[p] = "dl_exists"
    /\ rc' = [rc EXCEPT !.pc[p] = IF RaceFname(p) \notin DOMAIN files
                                  THEN "dl_save" ELSE "keep"]
    /\ UNCHANGED <<files, last, prev, fm, sp, held, sc, solo>>

\* download_data: save_data(data, fname)
RaceDlSave(p) ==
    /\ rc.pc[p] = "dl_save"
    /\ files' = save_data(StOf(p), rc.data[p], RaceFname(p)).files
    /\ rc' = [rc EXCEPT !.pc[p] = "keep", !.wrote[p] = @ \cup {RaceFname(p)}]
    /\ UNCHANGED <<last, prev, fm, sp, held, sc, solo>>

\* if not df.empty: save_data(df, fname); new_files.append(...); next sub-range
RaceKeep(p) ==
    /\ rc.pc[p] = "keep"
    /\ \E st \in {KeepNew(StOf(p), RaceRng(p), RaceFname(p))} :
          /\ files' = st.files
          /\ rc' = [rc EXCEPT !.pc[p] = "loop",
                              !.todo[p] = Tail(@),
                              !.new_files[p] = st.new_files,
                              !.wrote[p] = @ \cup {st.writes[k] : k \in 1..Len(st.writes)}]
    /\ UNCHANGED <<last, prev, fm, sp, held, sc, solo>>

\* steps 4 and 5 of load_data: read the relevant files, merge, trim, return
RaceMerge(p) ==
    /\ rc.pc[p] = "loop"
    /\ rc.todo[p] = <<>>
    /\ \E relevant \in {relevant_files(rc.cached[p] \o rc.new_files[p],
                                        rc.start, rc.end)} :
       \E dfs \in {[i \in 1..Len(relevant) |-> files[relevant[i][3]]]} :
          rc' = [rc EXCEPT !.pc[p] = "done",
                           !.result[p] =
                               IF HasFrames(dfs)
                               THEN sort_index(trim(drop_duplicates(concat(dfs)),
                                                    rc.start, rc.end))
                               ELSE <<>>]
    /\ UNCHANGED <<files, last, prev, fm, sp, held, sc, solo>>

NextRace ==
    \E p \in Procs :
        \/ RaceScan(p)
        \/ RaceExists(p)
        \/ RaceVendor(p)
        \/ RaceDlExists(p)
        \/ RaceDlSave(p)
        \/ RaceKeep(p)
        \/ RaceMerge(p)

SpecRace == InitRace /\ [][NextRace]_vars

(***************************************************************************)
(* load_data over several tickers and intervals in one cache directory     *)
(***************************************************************************)
SeriesTickers == {"AAPL", "MSFT"}

\* two interval codes of which one begins with the other
SeriesIntervals == {"1m", "1mo"}

SeriesTimes == {DT(2020, 1, 1, 0), DT(2020, 2, 1, 0), DT(2020, 3, 1, 0)}

SeriesBarTimes == {DT(2020, 1, 1, 0)}

SeriesAnswers == [SeriesBarTimes -> {0, 1}]

\* the part of a cache directory that belongs to one ticker and interval
OwnFiles(fs, ticker, interval) ==
    [f \in {g \in DOMAIN fs : g.ticker = ticker /\ g.interval = interval} |-> fs[f]]

RECURSIVE OwnListing(_, _)
OwnListing(listing, interval) ==
    IF listing = <<>> THEN <<>>
    ELSE IF Head(listing).interval = interval
         THEN <<Head(listing)>> \o OwnListing(Tail(listing), interval)
         ELSE OwnListing(Tail(listing), interval)

InitSeries ==
    /\ files = NoFiles
    /\ last = NoCall
    /\ prev = Summary(NoCall)
    /\ held = NoBars
    /\ fm = [mode |-> "idle"]
    /\ sp = [mode |-> "idle"]
    /\ sc = [mode |-> "idle"]
    /\ rc = [mode |-> "idle"]
    /\ solo = [mode |-> "idle"]

\* a load_data call for any ticker and interval on the shared cache directory;
\* solo records what the same call does on a directory that holds the partitions
\* of its own ticker and interval only
LoadSeries ==
    \E ticker \in SeriesTickers, interval \in SeriesIntervals,
       start \in SeriesTimes, end \in SeriesTimes, ans \in SeriesAnswers :
        /\ ~last.called
        /\ start < end
        /\ \E listing \in Listings(files, ticker) :
            \E failAt \in 0..Len(all_split_ranges(
                              find_missing_ranges(start, end,
                                  scan_cache_ranges(ticker, interval, listing)),
                              interval)) :
            \E r \in {load_data(files, ticker, interval, start, end, listing,
                                ans, failAt)},
               o \in {load_data(OwnFiles(files, ticker, interval), ticker, interval,
                                start, end, OwnListing(listing, interval),
                                ans, failAt)} :
                /\ files' = r.files
                /\ last' = [called |-> TRUE, ticker |-> ticker, interval |-> interval,
                            start |-> start, end |-> end, before |-> files,
                            cached |-> r.cached, missing |-> r.missing,
                            calls |-> r.calls, writes |-> r.writes,
                            raised |-> r.raised, parts |-> r.parts,
                            merged |-> r.merged, result |-> r.result]
                /\ solo' = [mode |-> "done", calls |-> o.calls, raised |-> o.raised,
                            result |-> o.result]
        /\ UNCHANGED <<prev, fm, sp, held, sc, rc>>

ReturnSeries ==
    /\ last.called
    /\ last' = NoCall
    /\ solo' = [mode |-> "idle"]
    /\ UNCHANGED <<files, prev, fm, sp, held, sc, rc>>

NextSeries == LoadSeries \/ ReturnSeries

SpecSeries == InitSeries /\ [][NextSeries]_vars

(***************************************************************************)
(* scan_cache_ranges on a drawn ticker directory                           *)
(***************************************************************************)
MaxEntries == 3    \* most entries in the drawn directory

ScanIntervals == {"1d", "1m", "1mo"}

\* entries a ticker directory can hold: partitions of the three intervals, a
\* name with a date that cannot be parsed, a name with another ending, a name with
\* something before the interval code
ScanEntries ==
    {get_fname("AAPL", i, DT(2020, 1, 1, 0), DT(2021, 1, 1, 0)) : i \in ScanIntervals}
    \cup {get_fname("AAPL", "1d", DT(2021, 1, 1, 0), DT(2022, 1, 1, 0)),
          [get_fname("AAPL", "1d", DT(2019, 1, 1, 0), DT(2020, 1, 1, 0))
              EXCEPT !.s = BadDate],
          [get_fname("AAPL", "1d", DT(2019, 1, 1, 0), DT(2020, 1, 1, 0))
              EXCEPT !.ext = ".csv.tmp"],
          [get_fname("AAPL", "1d", DT(2019, 1, 1, 0), DT(2020, 1, 1, 0))
              EXCEPT !.interval = "old-1d"]}

\* os.listdir: the entries of a directory, each once, in any order
ScanListings ==
    {l \in UNION {[1..n -> ScanEntries] : n \in 0..MaxEntries} :
        \A i, j \in 1..Len(l) : i # j => l[i] # l[j]}

InitScan ==
    /\ files = NoFiles
    /\ last = NoCall
    /\ prev = Summary(NoCall)
    /\ held = NoBars
    /\ fm = [mode |-> "idle"]
    /\ sp = [mode |-> "idle"]
    /\ rc = [mode |-> "idle"]
    /\ solo = [mode |-> "idle"]
    /\ sc \in {[mode |-> "input", ticker |-> "AAPL", interval |-> i,
                 exists |-> x, listing |-> l, found |-> <<>>] :
                    i \in ScanIntervals, x \in BOOLEAN, l \in ScanListings}
    /\ (~sc.exists => sc.listing = <<>>)

ScanCache ==
    /\ sc.mode = "input"
    /\ sc' = [sc EXCEPT !.mode = "done",
                        !.found = scan_dir(sc.ticker, sc.interval, sc.exists, sc.listing)]
    /\ UNCHANGED <<files, last, prev, fm, sp, held, rc, solo>>

NextScan == ScanCache

SpecScan == InitScan /\ [][NextScan]_vars

(***************************************************************************)
(* find_missing_ranges on drawn inputs                                     *)
(***************************************************************************)
MaxCached == 2     \* longest list of cached ranges drawn

FMTimes == {DT(2019, 12, 1, 0), DT(2020, 1, 1, 0), DT(2020, 2, 1, 0),
            DT(2021, 1, 1, 0), DT(2021, 2, 1, 0)}

\* what scan_cache_ranges can return for a file: start <= end (a file named for
\* a sub-range inside one day has start = end)
CachedEntries ==
    {<<r[1], r[2], get_fname("AAPL", "1d", r[1], r[2])>> :
        r \in {x \in FMTimes \X FMTimes : x[1] <= x[2]}}

CachedLists == UNION {[1..n -> CachedEntries] : n \in 0..MaxCached}

InitFM ==
    /\ files = NoFiles
    /\ last = NoCall
    /\ prev = Summary(NoCall)
    /\ held = NoBars
    /\ sc = [mode |-> "idle"]
    /\ rc = [mode |-> "idle"]
    /\ solo = [mode |-> "idle"]
    /\ sp = [mode |-> "idle"]
    /\ fm \in {[mode |-> "input", requested_start |-> s, requested_end |-> e,
                cached_ranges |-> c, missing |-> <<>>] :
                    s \in FMTimes, e \in FMTimes, c \in CachedLists}

FindMissing ==
    /\ fm.mode = "input"
    /\ fm' = [fm EXCEPT !.mode = "done",
                        !.missing = find_missing_ranges(fm.requested_start,
                                        fm.requested_end, fm.cached_ranges)]
    /\ UNCHANGED <<files, last, prev, sp, held, sc, rc, solo>>

NextFM == FindMissing

SpecFM == InitFM /\ [][NextFM]_vars

(***************************************************************************)
(* get_split_ranges on drawn inputs, one pass of its loop at a time        *)
(***************************************************************************)
SplitTimes == {DT(2009, 6, 15, 0), DT(2019, 12, 1, 0), DT(2019, 12, 31, 12),
               DT(2020, 1, 1, 0), DT(2020, 2, 1, 0), DT(2020, 4, 1, 0),
               DT(2021, 1, 1, 0), DT(2022, 6, 1, 0), DT(2030, 1, 1, 0)}

\* every interval of INTERVAL_SPLIT and one that is not in it
SplitIntervals == KnownIntervals \cup {"1w"}

InitSplit ==
    /\ files = NoFiles
    /\ last = NoCall
    /\ prev = Summary(NoCall)
    /\ held = NoBars
    /\ sc = [mode |-> "idle"]
    /\ rc = [mode |-> "idle"]
    /\ solo = [mode |-> "idle"]
    /\ fm = [mode |-> "idle"]
    /\ sp \in {[mode |-> "input", start |-> s, end |-> e, interval |-> i,
                split |-> "", cur |-> 0, ranges |-> <<>>] :
                    s \in SplitTimes, e \in SplitTimes, i \in SplitIntervals}

\* split = INTERVAL_SPLIT.get(interval, 'year'); ranges = []; cur = start
SplitEnter ==
    /\ sp.mode = "input"
    /\ sp' = [sp EXCEPT !.mode = "loop", !.split = SplitOf(sp.interval),
                        !.cur = sp.start, !.ranges = <<>>]
    /\ UNCHANGED <<files, last, prev, fm, held, sc, rc, solo>>

\* while cur < end: ranges.append(Range(cur, split_end)); cur = split_end
SplitIterate ==
    /\ sp.mode = "loop"
    /\ sp.cur < sp.end
    /\ \E split_end \in {split_step(sp.cur, sp.end, sp.split)} :
          sp' = [sp EXCEPT !.ranges = Append(sp.ranges, Range(sp.cur, split_end)),
                           !.cur = split_end]
    /\ UNCHANGED <<files, last, prev, fm, held, sc, rc, solo>>

\* return ranges
SplitExit ==
    /\ sp.mode = "loop"
    /\ ~(sp.cur < sp.end)
    /\ sp' = [sp EXCEPT !.mode = "done"]
    /\ UNCHANGED <<files, last, prev, fm, held, sc, rc, solo>>

NextSplit == SplitEnter \/ SplitIterate \/ SplitExit

SpecSplit == InitSplit /\ [][NextSplit]_vars

\* the call runs on: a pass of the loop or the return that can be taken is taken
SpecSplitFair == SpecSplit /\ WF_vars(NextSplit)

(***************************************************************************)
(* Properties of find_missing_ranges (SpecFM)                              *)
(***************************************************************************)
FMRequested == Range(fm.requested_start, fm.requested_end)

FMCached ==
    {Range(fm.cached_ranges[i][1], fm.cached_ranges[i][2]) :
        i \in 1..Len(fm.cached_ranges)}

FMGaps == {fm.missing[i] : i \in 1..Len(fm.missing)}

\* the cache of test_scan_cache_ranges_and_find_missing
TestCache ==
    <<<<DT(2020, 1, 1, 0), DT(2020, 7, 1, 0),
        get_fname("AAPL", "1d", DT(2020, 1, 1, 0), DT(2020, 7, 1, 0))>>,
      <<DT(2020, 7, 1, 0), DT(2021, 1, 1, 0),
        get_fname("AAPL", "1d", DT(2020, 7, 1, 0), DT(2021, 1, 1, 0))>>>>

\* C4: the gaps returned by find_missing_ranges and the cached ranges partition the
\* requested range: every instant of the requested range is in a gap or in a cached
\* range, never in both, and no gap has an instant outside the requested range; the
\* cache [2020-01-01, 2021-01-01) leaves exactly the leading gap
\* [2019-12-01, 2020-01-01) for the request 2019-12-01..2020-02-01 and exactly the
\* trailing gap [2021-01-01, 2021-02-01) for the request 2021-01-01..2021-02-01.
\* (Every range boundary is one of FMTimes, so a range holds an instant exactly
\* when it holds one of FMTimes.)
C4_GapsAndCacheCoverRequest ==
    /\ fm.mode = "done" =>
        /\ \A t \in FMTimes :
              InRange(t, FMRequested) =>
                  ((\E g \in FMGaps : InRange(t, g)) <=>
                   ~(\E c \in FMCached : InRange(t, c)))
        /\ \A g \in FMGaps : \A t \in FMTimes :
              InRange(t, g) => InRange(t, FMRequested)
    /\ find_missing_ranges(DT(2019, 12, 1, 0), DT(2020, 2, 1, 0), TestCache)
          = <<Range(DT(2019, 12, 1, 0), DT(2020, 1, 1, 0))>>
    /\ find_missing_ranges(DT(2021, 1, 1, 0), DT(2021, 2, 1, 0), TestCache)
          = <<Range(DT(2021, 1, 1, 0), DT(2021, 2, 1, 0))>>

\* a request that two overlapping cached ranges cut into a leading and a trailing gap
C4_Witness ==
    /\ fm.mode = "done"
    /\ Len(fm.missing) = 2
    /\ Len(fm.cached_ranges) = 2
    /\ \E t \in FMTimes : \A c \in FMCached : InRange(t, c) /\ InRange(t, FMRequested)

FMDisjoint ==
    \A i, j \in 1..Len(fm.cached_ranges) :
        i # j => ~(\E t \in FMTimes :
                      /\ InRange(t, Range(fm.cached_ranges[i][1], fm.cached_ranges[i][2]))
                      /\ InRange(t, Range(fm.cached_ranges[j][1], fm.cached_ranges[j][2])))

FMCovered ==
    \A t \in FMTimes : InRange(t, FMRequested) => \E c \in FMCached : InRange(t, c)

\* C5: when the cached ranges are pairwise disjoint (touching allowed) and their
\* union contains the requested range, find_missing_ranges returns the empty list,
\* in whatever order the cached ranges are given.
C5_CoveredRequestHasNoGap ==
    (/\ fm.mode = "done"
     /\ fm.requested_start < fm.requested_end
     /\ FMDisjoint
     /\ FMCovered) => fm.missing = <<>>

\* two touching cached ranges, given latest first, that together cover the request
C5_Witness ==
    /\ fm.mode = "done"
    /\ fm.requested_start < fm.requested_end
    /\ FMDisjoint
    /\ FMCovered
    /\ Len(fm.cached_ranges) = 2
    /\ fm.cached_ranges[1][1] = fm.cached_ranges[2][2]
    /\ fm.cached_ranges[2][1] < fm.cached_ranges[2][2]
    /\ fm.cached_ranges[1][1] < fm.cached_ranges[1][2]
    /\ fm.requested_start < fm.cached_ranges[1][1]
    /\ fm.requested_end > fm.cached_ranges[1][1]
    /\ fm.missing = <<>>

(***************************************************************************)
(* Properties of get_split_ranges (SpecSplit)                              *)
(***************************************************************************)
\* C6: for a gap with start < end, get_split_ranges returns sub-ranges in ascending
\* order, each starting where the previous one ends, the first starting at the
\* gap's start and the last ending at the gap's end: they cover the gap exactly
\* without overlap.
C6_SplitCoversGap ==
    (sp.mode = "done" /\ sp.start < sp.end) =>
        /\ Len(sp.ranges) >= 1
        /\ sp.ranges[1].start = sp.start
        /\ sp.ranges[Len(sp.ranges)].end = sp.end
        /\ \A i \in 1..Len(sp.ranges) : sp.ranges[i].start < sp.ranges[i].end
        /\ \A i \in 1..(Len(sp.ranges) - 1) : sp.ranges[i + 1].start = sp.ranges[i].end

\* a gap cut at boundaries, with the first and the last sub-range clipped to the gap
C6_Witness ==
    /\ sp.mode = "done"
    /\ Len(sp.ranges) >= 3
    /\ sp.start = DT(2019, 12, 31, 12)
    /\ sp.end = DT(2022, 6, 1, 0)

(***************************************************************************)
(* Properties of load_data (Spec)                                          *)
(***************************************************************************)
Returned(l) == l.called /\ ~l.raised

\* the sub-ranges the call asked the vendor for
LastCalls == {Range(last.calls[i].start, last.calls[i].end) : i \in 1..Len(last.calls)}

LastWindow == Range(last.start, last.end)

\* the recorded ranges of the partitions in the cache when the call started
BeforeRanges ==
    {Range(parse_date(f.s), parse_date(f.e)) :
        f \in {g \in DOMAIN last.before :
                  g.ticker = last.ticker /\ g.interval = last.interval}}

Intersects(a, b) == Max(a.start, b.start) < Min(a.end, b.end)

SameSeries == last.ticker = prev.ticker /\ last.interval = prev.interval

\* C1: a load_data call that follows a call with the same arguments makes no vendor
\* call and returns the same bars.
C1_RepeatedCallIsFree ==
    (/\ Returned(last) /\ Returned(prev) /\ SameSeries
     /\ last.start = prev.start /\ last.end = prev.end) =>
        (last.calls = <<>> /\ last.result = prev.result)

\* C2: every vendor call of a load_data call asks for a non-empty range inside the
\* requested window that intersects the recorded range of no partition that was in
\* the cache when the call started.
C2_VendorCallsAvoidCachedRanges ==
    last.called =>
        \A c \in LastCalls :
            /\ c.start < c.end
            /\ last.start <= c.start /\ c.end <= last.end
            /\ \A p \in BeforeRanges : ~Intersects(c, p)

\* a call that went to the vendor although a partition already covered a part of
\* its window
C2_Witness ==
    /\ last.called
    /\ last.calls # <<>>
    /\ \E p \in BeforeRanges : Intersects(p, LastWindow)

\* C3: after a call for [s, e) has returned, a call for [s', e) with s' < s asks the
\* vendor only for sub-ranges of [s', s), leaves the partitions that were in the
\* cache as they were, and returns every bar the earlier call returned.
C3_ExtensionFetchesLeadingGapOnly ==
    (/\ Returned(last) /\ Returned(prev) /\ SameSeries
     /\ last.end = prev.end /\ last.start < prev.start) =>
        /\ \A c \in LastCalls : last.start <= c.start /\ c.end <= prev.start
        /\ \A f \in DOMAIN last.before :
              f \in DOMAIN files /\ files[f] = last.before[f]
        /\ \A i \in 1..Len(prev.result) :
              \E j \in 1..Len(last.result) : last.result[j] = prev.result[i]

\* C7: after load_data has returned, no partition file exists for a sub-range the
\* vendor answered with an empty frame.
C7_EmptyAnswerLeavesNoPartition ==
    Returned(last) =>
        \A i \in 1..Len(last.calls) :
            last.calls[i].outcome = "empty" =>
                get_fname(last.ticker, last.interval,
                          last.calls[i].start, last.calls[i].end) \notin DOMAIN files

\* C8: a sub-range the vendor answered with an empty frame is asked for again by
\* the next load_data call whose window contains it.
C8_EmptyAnswerIsFetchedAgain ==
    (Returned(last) /\ prev.called /\ SameSeries) =>
        \A e \in prev.empties :
            (last.start <= e.start /\ e.end <= last.end) => e \in LastCalls

\* the partitions read, in the order read, that hold a bar with timestamp ts
PartsWith(ts) ==
    {i \in 1..Len(last.parts) :
        \E k \in 1..Len(last.parts[i]) : last.parts[i][k].ts = ts}

LastOf(S) == CHOOSE i \in S : \A j \in S : j <= i

\* C9: when two or more of the partitions read hold a bar with the same timestamp,
\* the merged frame holds exactly one bar with that timestamp, and it is the bar of
\* the partition read last among them (cached partitions in scan order, then the
\* partitions written by this call).
C9_DuplicateTimestampKeepsLastPartition ==
    Returned(last) =>
        \A ts \in BarTimes :
            Cardinality(PartsWith(ts)) >= 2 =>
                /\ Cardinality({k \in 1..Len(last.merged) : last.merged[k].ts = ts}) = 1
                /\ \A k \in 1..Len(last.merged) :
                      last.merged[k].ts = ts =>
                          \E m \in 1..Len(last.parts[LastOf(PartsWith(ts))]) :
                              last.parts[LastOf(PartsWith(ts))][m] = last.merged[k]

\* two partitions read hold different bars for one timestamp
C9_Witness ==
    /\ Returned(last)
    /\ \E ts \in BarTimes : \E i, j \in PartsWith(ts) :
          \E k \in 1..Len(last.parts[i]) : \E m \in 1..Len(last.parts[j]) :
              /\ i < j
              /\ last.parts[i][k].ts = ts /\ last.parts[j][m].ts = ts
              /\ last.parts[i][k].v # last.parts[j][m].v

\* C10: every bar load_data returns has start <= timestamp < end, and the bars are
\* in ascending order of timestamp, whatever the partitions read hold.
C10_ResultInsideWindowAscending ==
    Returned(last) =>
        /\ \A k \in 1..Len(last.result) :
              last.start <= last.result[k].ts /\ last.result[k].ts < last.end
        /\ \A k \in 1..(Len(last.result) - 1) :
              last.result[k].ts <= last.result[k + 1].ts

\* bars were returned although a partition read holds a bar at or past the end of
\* the window
C10_Witness ==
    /\ Returned(last)
    /\ Len(last.result) >= 1
    /\ \E i \in 1..Len(last.parts) : \E k \in 1..Len(last.parts[i]) :
          last.parts[i][k].ts >= last.end

(***************************************************************************)
(* Vendor failures (Spec)                                                  *)
(***************************************************************************)
\* C11: when a vendor call of a load_data call raises, load_data raises to its
\* caller: the failing call is the last vendor call, no bars are returned, and no
\* partition file exists or was written for the failing sub-range; a call that
\* returns (as it does on empty vendor answers) had no failing vendor call.
C11_VendorFailureIsRaised ==
    last.called =>
        /\ \A i \in 1..Len(last.calls) :
              last.calls[i].outcome = "raise" =>
                  /\ last.raised
                  /\ i = Len(last.calls)
                  /\ last.result = <<>> /\ last.parts = <<>>
                  /\ \A f \in {get_fname(last.ticker, last.interval,
                                         last.calls[i].start, last.calls[i].end)} :
                        /\ f \notin DOMAIN files
                        /\ \A k \in 1..Len(last.writes) : last.writes[k] # f
        /\ (~last.raised =>
                \A i \in 1..Len(last.calls) : last.calls[i].outcome \in {"empty", "bars"})

\* the vendor raised on a later sub-range after an earlier one was fetched and saved
C11_Witness ==
    /\ last.called /\ last.raised
    /\ Len(last.calls) >= 2
    /\ last.calls[Len(last.calls)].outcome = "raise"
    /\ last.writes # <<>>

SameArguments == SameSeries /\ last.start = prev.start /\ last.end = prev.end

\* C12: the partitions a load_data call wrote before the vendor failed are in the
\* cache when the call has aborted; when the call is retried with the same
\* arguments they are still there with the same content, and every vendor call of
\* the retry asks for a sub-range whose partition file did not exist when the
\* retry started and that holds no instant of a sub-range the aborted call had
\* saved bars for.
C12_AbortedLoadKeepsProgress ==
    /\ (last.called /\ last.raised) =>
           \A k \in 1..Len(last.writes) : last.writes[k] \in DOMAIN files
    /\ (last.called /\ prev.called /\ prev.raised /\ SameArguments) =>
           /\ \A w \in prev.writes :
                 /\ w \in DOMAIN last.before /\ w \in DOMAIN files
                 /\ files[w] = last.before[w]
           /\ \A c \in LastCalls :
                 /\ get_fname(last.ticker, last.interval, c.start, c.end)
                        \notin DOMAIN last.before
                 /\ \A p \in prev.saved : ~Intersects(c, p)

\* a call aborted after it had written a partition; the retry went to the vendor
\* for the rest and returned
C12_Witness ==
    /\ last.called /\ prev.called /\ prev.raised /\ SameArguments
    /\ prev.writes # {}
    /\ last.calls # <<>>
    /\ Returned(last)

(***************************************************************************)
(* Empty results (Spec)                                                    *)
(***************************************************************************)
NoVendorFailure == \A i \in 1..Len(last.calls) : last.calls[i].outcome # "raise"

\* the range p is neither wholly before nor wholly after the window w (a range of
\* zero length strictly inside the window counts as meeting it)
Meets(p, w) == ~(p.end <= w.start \/ p.start >= w.end)

\* C13: a load_data call whose vendor calls did not fail returns an empty bar
\* sequence, and does not raise, when no partition that was in the cache meets the
\* requested window and no sub-range of the call got bars from the vendor; in
\* particular when the cache was empty and the vendor answered every sub-range with
\* an empty frame.
C13_NothingInWindowReturnsEmpty ==
    (/\ last.called
     /\ NoVendorFailure
     /\ \A p \in BeforeRanges : ~Meets(p, LastWindow)
     /\ \A i \in 1..Len(last.calls) : last.calls[i].outcome = "empty")
        => (~last.raised /\ last.result = <<>>)

\* the cache was empty and the vendor answered two sub-ranges with empty frames
C13_Witness ==
    /\ last.called
    /\ BeforeRanges = {}
    /\ Len(last.calls) >= 2
    /\ \A i \in 1..Len(last.calls) : last.calls[i].outcome = "empty"
    /\ ~last.raised /\ last.result = <<>>

(***************************************************************************)
(* Order and length of the gaps (SpecFM)                                   *)
(***************************************************************************)
\* C14: the list find_missing_ranges returns is in ascending order of start and
\* its ranges do not overlap: each gap ends at or before the start of every later
\* gap, whatever the order of the cached ranges and whether they overlap, nest or
\* touch.
C14_GapsAscendingDisjoint ==
    fm.mode = "done" =>
        \A i, j \in 1..Len(fm.missing) :
            i < j => /\ fm.missing[i].start <= fm.missing[j].start
                     /\ fm.missing[i].end <= fm.missing[j].start

\* two gaps around two cached ranges that overlap and are given latest first
C14_Witness ==
    /\ fm.mode = "done"
    /\ Len(fm.missing) = 2
    /\ Len(fm.cached_ranges) = 2
    /\ fm.cached_ranges[1][1] > fm.cached_ranges[2][1]
    /\ fm.cached_ranges[1][1] < fm.cached_ranges[2][2]
    /\ fm.missing[1].start < fm.missing[1].end
    /\ fm.missing[2].start < fm.missing[2].end

\* C15: for a requested range (start < end) and every list of cached ranges, each
\* gap find_missing_ranges returns has start strictly less than end.
C15_NoZeroLengthGap ==
    (fm.mode = "done" /\ fm.requested_start < fm.requested_end) =>
        \A i \in 1..Len(fm.missing) : fm.missing[i].start < fm.missing[i].end

\* a cached range of zero length strictly inside the request, and a cached range
\* that ends where the request ends
C15_Witness ==
    /\ fm.mode = "done"
    /\ fm.requested_start < fm.requested_end
    /\ Len(fm.cached_ranges) = 2
    /\ fm.cached_ranges[1][1] = fm.cached_ranges[1][2]
    /\ fm.requested_start < fm.cached_ranges[1][1]
    /\ fm.cached_ranges[1][1] < fm.cached_ranges[2][1]
    /\ fm.cached_ranges[2][2] = fm.requested_end
    /\ Len(fm.missing) = 2

(***************************************************************************)
(* The partitions in the cache (Spec)                                      *)
(***************************************************************************)
\* what scan_cache_ranges reports for the cache: the recorded range of every file
ScannedRanges ==
    {Range(parse_date(f.s), parse_date(f.e)) : f \in DOMAIN files}

\* C16: after any sequence of load_data calls from an empty cache, every partition
\* that scan_cache_ranges reports has start strictly less than end.
C16_ScannedPartitionsNonEmpty ==
    \A p \in ScannedRanges : p.start < p.end

(***************************************************************************)
(* Alignment and termination of get_split_ranges (SpecSplit)               *)
(***************************************************************************)
YearStart(t) == t = DT(Year(t), 1, 1, 0)

MonthStart(t) == t = DT(Year(t), Month(t), 1, 0)

DecadeStart(t) == YearStart(t) /\ Year(t) % 10 = 0

\* the boundary the partition scheme asks of an interval code
AlignedFor(interval, t) ==
    CASE interval \in {"1h", "30m", "15m", "5m", "1m"} -> MonthStart(t)
      [] interval = "1mo" -> DecadeStart(t)
      [] OTHER -> YearStart(t)

\* C17: every boundary between two consecutive sub-ranges that get_split_ranges
\* returns is the first instant of a year for 1d, 1wk, 5d and unrecognized
\* intervals, of a month for 1h, 30m, 15m, 5m and 1m, and of a decade for 1mo; the
\* 1d gap 2020-01-01..2022-06-01 gives exactly the three sub-ranges that start at
\* 2020-01-01, 2021-01-01 and 2022-01-01.
C17_SplitBoundariesAligned ==
    sp.mode = "done" =>
        /\ \A i \in 1..(Len(sp.ranges) - 1) : AlignedFor(sp.interval, sp.ranges[i].end)
        /\ (/\ sp.interval = "1d"
            /\ sp.start = DT(2020, 1, 1, 0)
            /\ sp.end = DT(2022, 6, 1, 0)) =>
               sp.ranges = <<Range(DT(2020, 1, 1, 0), DT(2021, 1, 1, 0)),
                             Range(DT(2021, 1, 1, 0), DT(2022, 1, 1, 0)),
                             Range(DT(2022, 1, 1, 0), DT(2022, 6, 1, 0))>>

\* a month-split gap that starts at a noon and is cut at four month boundaries
C17_Witness ==
    /\ sp.mode = "done"
    /\ sp.interval = "1h"
    /\ sp.start = DT(2019, 12, 31, 12)
    /\ sp.end = DT(2020, 4, 1, 0)
    /\ Len(sp.ranges) = 4

\* C18: get_split_ranges terminates for every gap and interval code: every pass of
\* the loop is entered with the cursor before the gap's end and leaves the cursor
\* strictly later than it was, the call returns eventually, and it returns the
\* empty list when start >= end.
C18_SplitTerminates ==
    /\ [][(sp.mode = "loop" /\ sp'.mode = "loop") =>
              (sp.cur < sp.end /\ sp'.cur > sp.cur)]_vars
    /\ [](sp.mode = "done" /\ sp.start >= sp.end => sp.ranges = <<>>)
    /\ <>(sp.mode = "done")

\* a month-split gap of more than twenty years has been cut to its end
C18_Witness ==
    /\ sp.mode = "done"
    /\ sp.interval = "1m"
    /\ sp.start = DT(2009, 6, 15, 0)
    /\ sp.end = DT(2030, 1, 1, 0)
    /\ Len(sp.ranges) > 240

(***************************************************************************)
(* Writes to the cache (Spec)                                              *)
(***************************************************************************)
\* C19: a partition file is written at most once: a load_data call writes no file
\* twice and writes no file that was in the cache when the call started.
C19_PartitionWrittenOnce ==
    last.called =>
        /\ \A i, j \in 1..Len(last.writes) : i # j => last.writes[i] # last.writes[j]
        /\ \A k \in 1..Len(last.writes) : last.writes[k] \notin DOMAIN last.before

\* C20: a load_data call leaves every partition that was in the cache in the cache,
\* under the same name (so with the same recorded range) and with the same content;
\* the set of partitions only grows.
C20_ExistingPartitionsUnchanged ==
    [][\A f \in DOMAIN files : f \in DOMAIN files' /\ files'[f] = files[f]]_vars

\* a call that found partitions holding bars in the cache and wrote another one
C20_Witness ==
    /\ last.called
    /\ \E f \in DOMAIN last.before : last.before[f] # <<>>
    /\ \E f \in DOMAIN files : f \notin DOMAIN last.before /\ files[f] # <<>>

(***************************************************************************)
(* The partitions of one series (SpecSteady)                               *)
(***************************************************************************)
RangeOfFile(f) == Range(parse_date(f.s), parse_date(f.e))

\* C21: after any sequence of load_data calls for one ticker and interval from an
\* empty cache, no instant lies in the recorded range of two different partitions.
C21_PartitionsDisjoint ==
    \A f, g \in DOMAIN files :
        (f # g /\ f.ticker = g.ticker /\ f.interval = g.interval) =>
            ~Intersects(RangeOfFile(f), RangeOfFile(g))

\* two partitions that touch, next to a partition recorded with zero length
C21_Witness ==
    \E f, g, z \in DOMAIN files :
        /\ RangeOfFile(f).start < RangeOfFile(f).end
        /\ RangeOfFile(f).end = RangeOfFile(g).start
        /\ RangeOfFile(g).start < RangeOfFile(g).end
        /\ RangeOfFile(z).start = RangeOfFile(z).end

(***************************************************************************)
(* Order of the vendor calls (Spec)                                        *)
(***************************************************************************)
\* C22: within one load_data call the vendor calls come in ascending range order,
\* each starting at or after the end of the one before, and the partition file of
\* a sub-range is written after its vendor call and before the next vendor call.
C22_VendorCallsAscendingPersisted ==
    last.called =>
        \A i \in 1..(Len(last.calls) - 1) :
            /\ last.calls[i].end <= last.calls[i + 1].start
            /\ \E k \in (last.calls[i].at + 1)..last.calls[i + 1].at :
                  last.writes[k] = get_fname(last.ticker, last.interval,
                                             last.calls[i].start, last.calls[i].end)

\* a call that fetched the gap before and the gap after a cached partition
C22_Witness ==
    /\ Returned(last)
    /\ Len(last.calls) = 2
    /\ last.calls[1].end < last.calls[2].start
    /\ \E p \in BeforeRanges :
          last.calls[1].end <= p.start /\ p.end <= last.calls[2].start

(***************************************************************************)
(* Two processes on one cache (SpecRace)                                   *)
(***************************************************************************)
RaceFile(r) == get_fname(rc.ticker, rc.interval, r.start, r.end)

\* C23: the existence test and the write of a partition file are separate steps,
\* and only a process's own test decides: a process that found no file for a
\* sub-range has, when it is done, called the vendor for it and, if it got bars,
\* written the partition file, whatever the other process did in between; so when
\* both processes pass the test for the same sub-range, both call the vendor for it
\* and both write the same file.
C23_CheckThenWriteIsNotAtomic ==
    /\ \A p \in Procs :
          rc.pc[p] = "done" =>
              \A r \in rc.passed[p] :
                  /\ r \in rc.called[p]
                  /\ r \in rc.got[p] => RaceFile(r) \in rc.wrote[p]
    /\ (\A p \in Procs : rc.pc[p] = "done") =>
          \A r \in rc.passed[1] \cap rc.passed[2] :
              /\ \A p \in Procs : r \in rc.called[p]
              /\ r \in rc.got[1] \cap rc.got[2] =>
                     \A p \in Procs : RaceFile(r) \in rc.wrote[p]

\* both processes have called the vendor for the same sub-range and both have
\* written the same partition file
C23_Witness ==
    /\ \A p \in Procs : rc.pc[p] = "done"
    /\ \E r \in rc.called[1] \cap rc.called[2] :
          RaceFile(r) \in rc.wrote[1] \cap rc.wrote[2]

(***************************************************************************)
(* What scan_cache_ranges returns (SpecScan)                               *)
(***************************************************************************)
\* a name of the requested interval with the .csv ending and two calendar dates
WellFormedEntry(entry) ==
    /\ entry.interval = sc.interval
    /\ entry.ext = ".csv"
    /\ entry.s # BadDate /\ entry.e # BadDate

ScanWellFormed == SelectSeq(sc.listing, WellFormedEntry)

\* C24: scan_cache_ranges returns the empty list when the ticker directory does not
\* exist; otherwise it returns, in the order of the listing, exactly the well-formed
\* entries of the interval with the midnights of their two dates: an entry whose
\* name does not match the pattern or whose dates cannot be parsed is skipped and
\* does not stop the scan.
C24_ScanSkipsWhatItCannotRead ==
    sc.mode = "done" =>
        /\ ~sc.exists => sc.found = <<>>
        /\ Len(sc.found) = Len(ScanWellFormed)
        /\ \A k \in 1..Len(sc.found) :
              sc.found[k] = <<ScanWellFormed[k].s * 24, ScanWellFormed[k].e * 24,
                              ScanWellFormed[k]>>

\* a directory listed with an unparseable name first, then a partition of the
\* interval, then a name that does not match
C24_Witness ==
    /\ sc.mode = "done"
    /\ sc.interval = "1d"
    /\ Len(sc.listing) = 3
    /\ sc.listing[1].s = BadDate
    /\ WellFormedEntry(sc.listing[2])
    /\ ~Matches(sc.listing[3], sc.interval)
    /\ Len(sc.found) = 1

(***************************************************************************)
(* load_data against the vendor's data (SpecSteady)                        *)
(***************************************************************************)
\* C25: over any sequence of load_data calls from an empty cache against a vendor
\* whose data does not change, windows off midnight included, a call that returns
\* for [start, end) returns exactly the bars the vendor holds with
\* start <= timestamp < end.
C25_LoadReturnsVendorBars ==
    Returned(last) =>
        last.result = get_historical_data(held, last.start, last.end)

(***************************************************************************)
(* File names against the ranges they were written for (Spec)              *)
(***************************************************************************)
\* the partition file of the i-th vendor call of the last load_data
FileOfCall(i) ==
    get_fname(last.ticker, last.interval, last.calls[i].start, last.calls[i].end)

\* C26: for every partition load_data writes, a later scan_cache_ranges reports for
\* that file exactly the start and the end of the sub-range that was requested from
\* the vendor: get_fname followed by the parse of the name gives the range back.
C26_NameRoundTripsRange ==
    last.called =>
        \A i \in 1..Len(last.calls) :
            (\E k \in 1..Len(last.writes) : last.writes[k] = FileOfCall(i)) =>
                scan_cache_ranges(last.ticker, last.interval, <<FileOfCall(i)>>)
                    = <<<<last.calls[i].start, last.calls[i].end, FileOfCall(i)>>>>

(***************************************************************************)
(* Tickers and intervals side by side (SpecSeries)                         *)
(***************************************************************************)
OwnSeries(f) == f.ticker = last.ticker /\ f.interval = last.interval

\* C27: the vendor calls load_data makes and what it returns for one ticker and
\* interval are the same as on a cache that holds the partitions of that ticker and
\* interval only, whatever partitions of other tickers or of other intervals exist
\* (1m beside 1mo included); and load_data writes partitions of its own ticker and
\* interval only, leaving every other file as it was.
C27_SeriesDoNotInterfere ==
    last.called =>
        /\ last.calls = solo.calls
        /\ last.raised = solo.raised
        /\ last.result = solo.result
        /\ \A k \in 1..Len(last.writes) : OwnSeries(last.writes[k])
        /\ \A f \in DOMAIN last.before :
              ~OwnSeries(f) => f \in DOMAIN files /\ files[f] = last.before[f]

\* a 1m call that fetched and returned a bar while the same ticker had a 1mo
\* partition of the same dates and the other ticker had a 1m partition of them
C27_Witness ==
    /\ Returned(last)
    /\ last.interval = "1m"
    /\ last.calls # <<>>
    /\ last.result # <<>>
    /\ \E f, g \in DOMAIN last.before :
          /\ f.ticker = last.ticker /\ f.interval = "1mo"
          /\ g.ticker # last.ticker /\ g.interval = "1m"
          /\ \E k \in 1..Len(last.writes) :
                last.writes[k].s = f.s /\ last.writes[k].e = f.e
                /\ last.writes[k].s = g.s /\ last.writes[k].e = g.e

====
